---- MODULE Spec2Model ----
(***************************************************************************)
(* Promizen: a Promises/A+ promise.  The model is the class of             *)
(* src/src/promizen.js (constructor, resolve, __resolve, reject, __reject, *)
(* then, catch, __resolveValue) together with the host's FIFO micro-task   *)
(* queue and the callers of the public methods.                            *)
(*                                                                         *)
(* The heap of promizens, the micro-task queue and the latches of the      *)
(* thenable callbacks are gathered in one record h; every method is an     *)
(* operator from a heap to the heap it leaves, and every action is one     *)
(* synchronous run to completion: a call made from the top level, or one   *)
(* micro-task taken from the queue.                                        *)
(***************************************************************************)
EXTENDS Integers, Sequences, FiniteSets, TLC

(* P: the promizens, in the order of their construction (fate, state,     *)
(*   value, reason, pendingHandlers).                                      *)
(* queue: the host's micro-task queue, oldest task first.                  *)
(* latches: one per call of a foreign then: the promizen being resolved,   *)
(*   the variable called that its two callbacks share, whether the         *)
(*   thenable kept the callbacks; and, as a record of what happened, the   *)
(*   object whose then was called (of), the number n of calls of the       *)
(*   callbacks and the first of them.                                      *)
(* log: a record of the handler runs, in order.                            *)
(* regs: a record of the calls of then, in order, with the handlers as     *)
(*   they were passed.                                                     *)
(* ignored: a record of the last call of a kept resolve / reject that came *)
(*   after the fate was resolved.                                          *)
(* env: the family of the calling program.                                 *)
(* made: a record of the calls of new Promizen(executor) whose executor    *)
(*   settles or throws while it runs, in order, with the executor.         *)
(* fault: the error the last call or micro-task threw to its caller (Null: *)
(*   it returned normally).                                                *)
VARIABLES P, queue, latches, log, regs, ignored, env, made, fault

vars == <<P, queue, latches, log, regs, ignored, env, made, fault>>

(* Bounds of the model: the promizens callers hold, and the calls a        *)
(* foreign then makes of its two callbacks, and the promizens constructed  *)
(* with an executor that settles or throws while it runs.                  *)
MaxHeld == 3
MaxCalls == 2
MaxMade == 2

(* ------------------------------ constants ------------------------------ *)
PENDING == "pending"
FULFILLED == "fulfilled"
REJECTED == "rejected"
UNRESOLVED == "unresolved"
RESOLVED == "resolved"

(* ------------------------------- values -------------------------------- *)
(* A JavaScript value: its kind and a payload.                             *)
Val(t, v) == [t |-> t, v |-> v]
Null == Val("null", 0)
Undefined == Val("undefined", 0)
Plain(n) == Val("plain", n)
Pref(i) == Val("promizen", i)
Obj(k) == Val("object", k)
Str(k) == Val("string", k)
CycleError == Val("TypeError", 0)
NotCallable == Val("TypeError", 1)
NoLength == Val("TypeError", 2)

(* The strings of the usage example of the documentation, character by     *)
(* character.                                                              *)
Strings ==
  << <<"H", "o", "w", " ", "a", "r", "e", " ", "u", "?">>,
     <<"I", "'", "m", " ", "f", "i", "n", "e", ",", " ", "t", "h", "a", "n",
       "k", "s", ",", " ", "a", "n", "d", " ", "u", "?">>,
     <<"I", "'", "m", " ", "n", "o", "t", " ", "f", "i", "n", "e", ".">> >>

(* A step of a foreign then method: it calls one of the two callbacks it   *)
(* was handed, or throws.                                                  *)
Step(op, v) == [op |-> op, v |-> v]

(* What reading the then member of a foreign object raises, and what a     *)
(* foreign then method throws.                                             *)
GetError == Plain(5)
ThenError == Plain(6)

(* The foreign objects a promizen is resolved with.  getThrows: reading    *)
(* the then member raises err; callable: the member is a function; script: *)
(* what the then method does synchronously; keep: it keeps the callbacks   *)
(* and may call them later.                                                *)
Objects ==
  << [getThrows |-> FALSE, err |-> Null, callable |-> TRUE, keep |-> FALSE,
      script |-> <<Step("res", Plain(1)), Step("res", Plain(2))>>],
     [getThrows |-> FALSE, err |-> Null, callable |-> TRUE, keep |-> TRUE,
      script |-> <<Step("res", Plain(1))>>],
     [getThrows |-> FALSE, err |-> Null, callable |-> TRUE, keep |-> FALSE,
      script |-> <<Step("rej", Plain(1)), Step("res", Plain(2))>>],
     [getThrows |-> FALSE, err |-> Null, callable |-> TRUE, keep |-> TRUE,
      script |-> <<>>],
     [getThrows |-> TRUE, err |-> GetError, callable |-> FALSE,
      keep |-> FALSE, script |-> <<>>],
     [getThrows |-> FALSE, err |-> Null, callable |-> TRUE, keep |-> FALSE,
      script |-> <<Step("throw", ThenError)>>],
     [getThrows |-> FALSE, err |-> Null, callable |-> TRUE, keep |-> FALSE,
      script |-> <<Step("res", Plain(1)), Step("throw", ThenError)>>],
     [getThrows |-> FALSE, err |-> Null, callable |-> FALSE, keep |-> FALSE,
      script |-> <<>>],
     [getThrows |-> FALSE, err |-> Null, callable |-> TRUE, keep |-> FALSE,
      script |-> <<Step("res", Obj(4)), Step("throw", ThenError)>>],
     [getThrows |-> FALSE, err |-> Null, callable |-> TRUE, keep |-> FALSE,
      script |-> <<Step("rej", Plain(1)), Step("throw", ThenError)>>] >>

(* ------------------------------ handlers ------------------------------- *)
(* What is passed to then: nothing callable, or a function that returns a  *)
(* value, throws a value, or returns the promizen that then returned.      *)
(* Identity and Thrower are the defaults of then; AdoptF/AdoptR are the    *)
(* two arrows __resolveValue passes to x.then.                             *)
Fn(k, v) == [k |-> k, v |-> v]
None == Fn("none", Null)
Ret(v) == Fn("ret", v)
Throw(v) == Fn("throw", v)
RetSelf == Fn("retSelf", Null)
Identity == Fn("identity", Null)
Thrower == Fn("thrower", Null)
AdoptF(s) == Fn("adoptF", Pref(s))
AdoptR(s) == Fn("adoptR", Pref(s))
(* Handlers that compute with their argument: v => v + n, v => v * n,      *)
(* v => v.length; and one that returns a new promizen whose resolve it     *)
(* keeps for later.                                                        *)
Add(n) == Fn("add", Plain(n))
Mul(n) == Fn("mul", Plain(n))
Length == Fn("length", Null)
Fresh == Fn("fresh", Null)

(* What a handler that computes with its argument returns.                 *)
Apply(f, arg) ==
  CASE f.k = "add"    -> Plain(arg.v + f.v.v)
    [] f.k = "mul"    -> Plain(arg.v * f.v.v)
    [] f.k = "length" -> IF arg.t = "string" THEN Plain(Len(Strings[arg.v]))
                         ELSE Undefined

Callable(f) == f.k # "none"

(* -------------------------- the class Promizen ------------------------- *)
NewPromizen ==
  [fate |-> UNRESOLVED, state |-> PENDING, value |-> Null, reason |-> Null,
   pendingHandlers |-> <<>>]

Task(which, c) == [which |-> which, c |-> c]

RECURSIVE microtask(_, _)
RECURSIVE __resolveValue(_, _, _)
RECURSIVE thenFunc(_, _, _)

(* queueMicrotask, were it to run the task at once.                        *)
queueMicrotask_inline(h, task) == microtask(h, task)

queueMicrotask(h, task) == [h EXCEPT !.queue = Append(@, task)]

(* fulfilledAction, were it to queue the task of onRejected.               *)
fulfilledAction_asRejected(h, c) == queueMicrotask(h, Task("R", c))

fulfilledAction(h, c) == queueMicrotask(h, Task("F", c))

(* rejectedAction, were it to queue the task of onFulfilled.               *)
rejectedAction_asFulfilled(h, c) == queueMicrotask(h, Task("F", c))

rejectedAction(h, c) == queueMicrotask(h, Task("R", c))

RECURSIVE forEachOnFulfilled(_, _)
RECURSIVE forEachOnFulfilled_backwards(_, _)
(* The drain of __resolve, were it to go from the last handler to the first. *)
forEachOnFulfilled_backwards(h, handlers) ==
  IF handlers = <<>> THEN h
  ELSE fulfilledAction(forEachOnFulfilled_backwards(h, Tail(handlers)),
                       Head(handlers))

forEachOnFulfilled(h, handlers) ==
  IF handlers = <<>> THEN h
  ELSE forEachOnFulfilled(fulfilledAction(h, Head(handlers)), Tail(handlers))

RECURSIVE forEachOnRejected(_, _)
forEachOnRejected(h, handlers) ==
  IF handlers = <<>> THEN h
  ELSE forEachOnRejected(rejectedAction(h, Head(handlers)), Tail(handlers))

(* __resolve, were it to empty __pendingHandlers after the drain.          *)
__resolve_clearing(h, s, value) ==
  LET h1 == [h EXCEPT !.P[s].state = FULFILLED, !.P[s].value = value]
      h2 == forEachOnFulfilled(h1, h1.P[s].pendingHandlers)
  IN  [h2 EXCEPT !.P[s].pendingHandlers = <<>>]

(* __resolve, were it not to store the value.                              *)
__resolve_valueless(h, s, value) ==
  LET h1 == [h EXCEPT !.P[s].state = FULFILLED]
  IN  forEachOnFulfilled(h1, h1.P[s].pendingHandlers)

__resolve(h, s, value) ==
  LET h1 == [h EXCEPT !.P[s].state = FULFILLED, !.P[s].value = value]
  IN  forEachOnFulfilled(h1, h1.P[s].pendingHandlers)

(* __reject, were it to store the reason in value.                         *)
__reject_intoValue(h, s, reason) ==
  LET h1 == [h EXCEPT !.P[s].state = REJECTED, !.P[s].value = reason]
  IN  forEachOnRejected(h1, h1.P[s].pendingHandlers)

(* __reject, were it to call handler.onFulfilled().                        *)
__reject_onFulfilled(h, s, reason) ==
  LET h1 == [h EXCEPT !.P[s].state = REJECTED, !.P[s].reason = reason]
  IN  forEachOnFulfilled(h1, h1.P[s].pendingHandlers)

__reject(h, s, reason) ==
  LET h1 == [h EXCEPT !.P[s].state = REJECTED, !.P[s].reason = reason]
  IN  forEachOnRejected(h1, h1.P[s].pendingHandlers)

(* resolve, were it to leave the fate as it is.                            *)
resolve_unlatched(h, s, value) ==
  IF h.P[s].fate = RESOLVED \/ h.P[s].state # PENDING THEN h
  ELSE __resolveValue(h, s, value)

(* resolve, were its early return to test the state alone.                 *)
resolve_stateOnly(h, s, value) ==
  IF h.P[s].state # PENDING THEN h
  ELSE __resolveValue([h EXCEPT !.P[s].fate = RESOLVED], s, value)

(* resolve without its early return.                                       *)
resolve_unguarded(h, s, value) ==
  __resolveValue([h EXCEPT !.P[s].fate = RESOLVED], s, value)

resolve(h, s, value) ==
  IF h.P[s].fate = RESOLVED \/ h.P[s].state # PENDING THEN h
  ELSE __resolveValue([h EXCEPT !.P[s].fate = RESOLVED], s, value)

(* reject, were its early return to test the state alone.                  *)
reject_stateOnly(h, s, reason) ==
  IF h.P[s].state # PENDING THEN h
  ELSE __reject([h EXCEPT !.P[s].fate = RESOLVED], s, reason)

(* reject, were it to resolve the promizen with the reason.                *)
reject_unwrapping(h, s, reason) ==
  IF h.P[s].fate = RESOLVED \/ h.P[s].state # PENDING THEN h
  ELSE __resolveValue([h EXCEPT !.P[s].fate = RESOLVED], s, reason)

(* reject without its early return.                                        *)
reject_unguarded(h, s, reason) ==
  __reject([h EXCEPT !.P[s].fate = RESOLVED], s, reason)

reject(h, s, reason) ==
  IF h.P[s].fate = RESOLVED \/ h.P[s].state # PENDING THEN h
  ELSE __reject([h EXCEPT !.P[s].fate = RESOLVED], s, reason)

onFulfilledOrDefault(onFulfilled) ==
  IF Callable(onFulfilled) THEN onFulfilled ELSE Identity

(* The default onRejected, were it to return the reason.                   *)
onRejectedOrDefault_identity(onRejected) ==
  IF Callable(onRejected) THEN onRejected ELSE Identity

onRejectedOrDefault(onRejected) ==
  IF Callable(onRejected) THEN onRejected ELSE Thrower

(* then, were it to push the pair on a settled promizen too.               *)
then_alwaysPush(h, s, onFulfilled, onRejected) ==
  LET d  == Len(h.P) + 1
      c  == [src |-> s, dst |-> d,
             onFulfilled |-> onFulfilledOrDefault(onFulfilled),
             onRejected |-> onRejectedOrDefault(onRejected)]
      h1 == [h EXCEPT !.P = Append(@, NewPromizen),
                      !.regs = Append(@, [src |-> s, dst |-> d,
                                          onFulfilled |-> onFulfilled,
                                          onRejected |-> onRejected]),
                      !.P[s].pendingHandlers = Append(@, c)]
  IN  IF h1.P[s].state = FULFILLED THEN fulfilledAction(h1, c)
      ELSE IF h1.P[s].state = REJECTED THEN rejectedAction(h1, c)
      ELSE h1

(* then, were it to drop the handlers given for a pending promizen.        *)
then_pendingDropped(h, s, onFulfilled, onRejected) ==
  LET d  == Len(h.P) + 1
      c  == [src |-> s, dst |-> d,
             onFulfilled |-> onFulfilledOrDefault(onFulfilled),
             onRejected |-> onRejectedOrDefault(onRejected)]
      h1 == [h EXCEPT !.P = Append(@, NewPromizen),
                      !.regs = Append(@, [src |-> s, dst |-> d,
                                          onFulfilled |-> onFulfilled,
                                          onRejected |-> onRejected])]
  IN  IF h1.P[s].state = FULFILLED THEN fulfilledAction(h1, c)
      ELSE IF h1.P[s].state = REJECTED THEN rejectedAction(h1, c)
      ELSE h1

(* then: the new promizen is the next free cell, Len(h.P) + 1; its         *)
(* executor runs inside the constructor and closes over the source s and   *)
(* the two handlers (the closure c).                                       *)
then(h, s, onFulfilled, onRejected) ==
  LET d  == Len(h.P) + 1
      c  == [src |-> s, dst |-> d,
             onFulfilled |-> onFulfilledOrDefault(onFulfilled),
             onRejected |-> onRejectedOrDefault(onRejected)]
      h1 == [h EXCEPT !.P = Append(@, NewPromizen),
                      !.regs = Append(@, [src |-> s, dst |-> d,
                                          onFulfilled |-> onFulfilled,
                                          onRejected |-> onRejected])]
  IN  IF h1.P[s].state = FULFILLED THEN fulfilledAction(h1, c)
      ELSE IF h1.P[s].state = REJECTED THEN rejectedAction(h1, c)
      ELSE [h1 EXCEPT !.P[s].pendingHandlers = Append(@, c)]

(* catch, were it to pass its handler as onFulfilled.                      *)
catch_asOnFulfilled(h, s, onRejected) == then(h, s, onRejected, None)

catch(h, s, onRejected) == then(h, s, None, onRejected)

(* A call of a handler f with argument arg, made by the micro-task of the  *)
(* promizen d: the heap it leaves, whether it threw, and what it returned  *)
(* or threw.                                                               *)
Outcome(h, threw, val) == [h |-> h, threw |-> threw, val |-> val]

(* call, were the second arrow of __resolveValue to call __resolve.        *)
call_adoptSwapped(h, f, arg, d) ==
  CASE f.k = "identity" -> Outcome(h, FALSE, arg)
    [] f.k = "thrower"  -> Outcome(h, TRUE, arg)
    [] f.k = "ret"      -> Outcome(h, FALSE, f.v)
    [] f.k = "throw"    -> Outcome(h, TRUE, f.v)
    [] f.k = "retSelf"  -> Outcome(h, FALSE, Pref(d))
    [] f.k = "adoptF"   -> Outcome(__resolve(h, f.v.v, arg), FALSE, Undefined)
    [] f.k = "adoptR"   -> Outcome(__resolve(h, f.v.v, arg), FALSE, Undefined)
    [] f.k \in {"add", "mul"} -> Outcome(h, FALSE, Apply(f, arg))
    [] f.k = "length"   -> IF arg.t \in {"undefined", "null"}
                             THEN Outcome(h, TRUE, NoLength)
                             ELSE Outcome(h, FALSE, Apply(f, arg))
    [] f.k = "fresh"    -> Outcome([h EXCEPT !.P = Append(@, NewPromizen)],
                                   FALSE, Pref(Len(h.P) + 1))

call(h, f, arg, d) ==
  CASE f.k = "identity" -> Outcome(h, FALSE, arg)
    [] f.k = "thrower"  -> Outcome(h, TRUE, arg)
    [] f.k = "ret"      -> Outcome(h, FALSE, f.v)
    [] f.k = "throw"    -> Outcome(h, TRUE, f.v)
    [] f.k = "retSelf"  -> Outcome(h, FALSE, Pref(d))
    [] f.k = "adoptF"   -> Outcome(__resolve(h, f.v.v, arg), FALSE, Undefined)
    [] f.k = "adoptR"   -> Outcome(__reject(h, f.v.v, arg), FALSE, Undefined)
    [] f.k \in {"add", "mul"} -> Outcome(h, FALSE, Apply(f, arg))
    [] f.k = "length"   -> IF arg.t \in {"undefined", "null"}
                             THEN Outcome(h, TRUE, NoLength)
                             ELSE Outcome(h, FALSE, Apply(f, arg))
    [] f.k = "fresh"    -> Outcome([h EXCEPT !.P = Append(@, NewPromizen)],
                                   FALSE, Pref(Len(h.P) + 1))

(* The micro-task without its catch: what the handler threw is resolved    *)
(* with like a returned value.                                             *)
microtask_swallow(h, task) ==
  LET c   == task.c
      arg == IF task.which = "F" THEN h.P[c.src].value ELSE h.P[c.src].reason
      f   == IF task.which = "F" THEN c.onFulfilled ELSE c.onRejected
      h1  == [h EXCEPT !.log = Append(@, [src |-> c.src, dst |-> c.dst,
                                          which |-> task.which, arg |-> arg])]
      r   == call(h1, f, arg, c.dst)
  IN  resolve(r.h, c.dst, r.val)

(* The body of the micro-task that fulfilledAction / rejectedAction queue. *)
microtask(h, task) ==
  LET c   == task.c
      arg == IF task.which = "F" THEN h.P[c.src].value ELSE h.P[c.src].reason
      f   == IF task.which = "F" THEN c.onFulfilled ELSE c.onRejected
      h1  == [h EXCEPT !.log = Append(@, [src |-> c.src, dst |-> c.dst,
                                          which |-> task.which, arg |-> arg])]
      r   == call(h1, f, arg, c.dst)
  IN  IF r.threw THEN reject(r.h, c.dst, r.val)
      ELSE resolve(r.h, c.dst, r.val)

(* The two callbacks __resolveValue hands to a foreign then; they share    *)
(* the latch l (the variable called of that __resolveValue call).          *)
Invoked(h, l, which, v) ==
  [h EXCEPT !.latches[l].n = @ + 1,
            !.latches[l].first = IF @ = <<>> THEN <<Step(which, v)>> ELSE @]

(* The first callback, were it to fulfil the promizen with what it is      *)
(* given.                                                                  *)
resolvePromise_shallow(h, l, value) ==
  LET h1 == Invoked(h, l, "res", value)
  IN  IF h1.latches[l].called THEN h1
      ELSE __resolve([h1 EXCEPT !.latches[l].called = TRUE],
                     h1.latches[l].owner, value)

resolvePromise(h, l, value) ==
  LET h1 == Invoked(h, l, "res", value)
  IN  IF h1.latches[l].called THEN h1
      ELSE __resolveValue([h1 EXCEPT !.latches[l].called = TRUE],
                          h1.latches[l].owner, value)

(* The second callback, were it not to test called.                        *)
rejectPromise_unlatched(h, l, reason) ==
  LET h1 == Invoked(h, l, "rej", reason)
  IN  __reject([h1 EXCEPT !.latches[l].called = TRUE],
               h1.latches[l].owner, reason)

rejectPromise(h, l, reason) ==
  LET h1 == Invoked(h, l, "rej", reason)
  IN  IF h1.latches[l].called THEN h1
      ELSE __reject([h1 EXCEPT !.latches[l].called = TRUE],
                    h1.latches[l].owner, reason)

(* The foreign then method, were it not called in __resolveValue.          *)
thenFunc_notCalled(h, l, script) == Outcome(h, FALSE, Undefined)

(* The foreign then method running its script with the callbacks of latch  *)
(* l: the heap it leaves and whether (and what) it threw.                  *)
thenFunc(h, l, script) ==
  IF script = <<>> THEN Outcome(h, FALSE, Undefined)
  ELSE LET st == Head(script)
       IN  CASE st.op = "res" ->
                  thenFunc(resolvePromise(h, l, st.v), l, Tail(script))
             [] st.op = "rej" ->
                  thenFunc(rejectPromise(h, l, st.v), l, Tail(script))
             [] st.op = "throw" -> Outcome(h, TRUE, st.v)

(* __resolveValue, were it to copy a promizen that is settled already.     *)
__resolveValue_adoptNow(h, s, x) ==
  IF x = Pref(s) THEN __reject(h, s, CycleError)
  ELSE IF x.t = "promizen" THEN
         IF h.P[x.v].state = FULFILLED THEN __resolve(h, s, h.P[x.v].value)
         ELSE IF h.P[x.v].state = REJECTED
                THEN __reject(h, s, h.P[x.v].reason)
         ELSE then(h, x.v, AdoptF(s), AdoptR(s))
  ELSE IF x.t # "object" THEN __resolve(h, s, x)
  ELSE LET o == Objects[x.v]
       IN  IF o.getThrows THEN __reject(h, s, o.err)
           ELSE IF ~o.callable THEN __resolve(h, s, x)
           ELSE LET l  == Len(h.latches) + 1
                    h1 == [h EXCEPT !.latches =
                            Append(@, [owner |-> s, called |-> FALSE,
                                       kept |-> o.keep, of |-> x.v,
                                       n |-> 0, first |-> <<>>])]
                    r  == thenFunc(h1, l, o.script)
                IN  IF r.threw /\ ~r.h.latches[l].called
                      THEN __reject(r.h, s, r.val)
                      ELSE r.h

(* __resolveValue without the test this === x.                             *)
__resolveValue_nocycle(h, s, x) ==
  IF x.t = "promizen" THEN then(h, x.v, AdoptF(s), AdoptR(s))
  ELSE IF x.t # "object" THEN __resolve(h, s, x)
  ELSE LET o == Objects[x.v]
       IN  IF o.getThrows THEN __reject(h, s, o.err)
           ELSE IF ~o.callable THEN __resolve(h, s, x)
           ELSE LET l  == Len(h.latches) + 1
                    h1 == [h EXCEPT !.latches =
                            Append(@, [owner |-> s, called |-> FALSE,
                                       kept |-> o.keep, of |-> x.v,
                                       n |-> 0, first |-> <<>>])]
                    r  == thenFunc(h1, l, o.script)
                IN  IF r.threw /\ ~r.h.latches[l].called
                      THEN __reject(r.h, s, r.val)
                      ELSE r.h

(* __resolveValue, were its catch around thenFunc.call not to test called. *)
__resolveValue_throwWins(h, s, x) ==
  IF x = Pref(s) THEN __reject(h, s, CycleError)
  ELSE IF x.t = "promizen" THEN then(h, x.v, AdoptF(s), AdoptR(s))
  ELSE IF x.t # "object" THEN __resolve(h, s, x)
  ELSE LET o == Objects[x.v]
       IN  IF o.getThrows THEN __reject(h, s, o.err)
           ELSE IF ~o.callable THEN __resolve(h, s, x)
           ELSE LET l  == Len(h.latches) + 1
                    h1 == [h EXCEPT !.latches =
                            Append(@, [owner |-> s, called |-> FALSE,
                                       kept |-> o.keep, of |-> x.v,
                                       n |-> 0, first |-> <<>>])]
                    r  == thenFunc(h1, l, o.script)
                IN  IF r.threw THEN __reject(r.h, s, r.val) ELSE r.h

(* __resolveValue, were it to call x.then whatever its type.               *)
__resolveValue_untyped(h, s, x) ==
  IF x = Pref(s) THEN __reject(h, s, CycleError)
  ELSE IF x.t = "promizen" THEN then(h, x.v, AdoptF(s), AdoptR(s))
  ELSE IF x.t # "object" THEN __resolve(h, s, x)
  ELSE LET o == Objects[x.v]
       IN  IF o.getThrows THEN __reject(h, s, o.err)
           ELSE LET l  == Len(h.latches) + 1
                    h1 == [h EXCEPT !.latches =
                            Append(@, [owner |-> s, called |-> FALSE,
                                       kept |-> o.keep, of |-> x.v,
                                       n |-> 0, first |-> <<>>])]
                    r  == thenFunc(h1, l, o.script)
                IN  IF r.threw /\ ~r.h.latches[l].called
                      THEN __reject(r.h, s, r.val)
                      ELSE r.h

(* __resolveValue, were it to read x.then outside its try.                 *)
__resolveValue_getUncaught(h, s, x) ==
  IF x = Pref(s) THEN __reject(h, s, CycleError)
  ELSE IF x.t = "promizen" THEN then(h, x.v, AdoptF(s), AdoptR(s))
  ELSE IF x.t # "object" THEN __resolve(h, s, x)
  ELSE LET o == Objects[x.v]
       IN  IF o.getThrows THEN [h EXCEPT !.fault = o.err]
           ELSE IF ~o.callable THEN __resolve(h, s, x)
           ELSE LET l  == Len(h.latches) + 1
                    h1 == [h EXCEPT !.latches =
                            Append(@, [owner |-> s, called |-> FALSE,
                                       kept |-> o.keep, of |-> x.v,
                                       n |-> 0, first |-> <<>>])]
                    r  == thenFunc(h1, l, o.script)
                IN  IF r.threw /\ ~r.h.latches[l].called
                      THEN __reject(r.h, s, r.val)
                      ELSE r.h

__resolveValue(h, s, x) ==
  IF x = Pref(s) THEN __reject(h, s, CycleError)
  ELSE IF x.t = "promizen" THEN then(h, x.v, AdoptF(s), AdoptR(s))
  ELSE IF x.t # "object" THEN __resolve(h, s, x)
  ELSE LET o == Objects[x.v]
       IN  IF o.getThrows THEN __reject(h, s, o.err)
           ELSE IF ~o.callable THEN __resolve(h, s, x)
           ELSE LET l  == Len(h.latches) + 1
                    h1 == [h EXCEPT !.latches =
                            Append(@, [owner |-> s, called |-> FALSE,
                                       kept |-> o.keep, of |-> x.v,
                                       n |-> 0, first |-> <<>>])]
                    r  == thenFunc(h1, l, o.script)
                IN  IF r.threw /\ ~r.h.latches[l].called
                      THEN __reject(r.h, s, r.val)
                      ELSE r.h

(* An executor: whether it is a function, and what it does synchronously   *)
(* with the resolve and reject it is handed (the steps of its script).     *)
Executor(callable, script) == [callable |-> callable, script |-> script]

RECURSIVE runExecutor(_, _, _)
(* The executor, were it handed reject first and resolve second.           *)
runExecutor_swapped(h, d, script) ==
  IF script = <<>> THEN Outcome(h, FALSE, Undefined)
  ELSE LET st == Head(script)
       IN  CASE st.op = "res" ->
                  runExecutor(reject(h, d, st.v), d, Tail(script))
             [] st.op = "rej" ->
                  runExecutor(resolve(h, d, st.v), d, Tail(script))
             [] st.op = "throw" -> Outcome(h, TRUE, st.v)

(* The executor running its script on the promizen d: the heap it leaves   *)
(* and whether (and what) it threw.                                        *)
runExecutor(h, d, script) ==
  IF script = <<>> THEN Outcome(h, FALSE, Undefined)
  ELSE LET st == Head(script)
       IN  CASE st.op = "res" ->
                  runExecutor(resolve(h, d, st.v), d, Tail(script))
             [] st.op = "rej" ->
                  runExecutor(reject(h, d, st.v), d, Tail(script))
             [] st.op = "throw" -> Outcome(h, TRUE, st.v)

(* The constructor, were its catch to call __reject.                       *)
constructor_catchUnguarded(h, executor) ==
  IF ~executor.callable THEN [h EXCEPT !.fault = NotCallable]
  ELSE LET d == Len(h.P) + 1
           r == runExecutor([h EXCEPT !.P = Append(@, NewPromizen)], d,
                            executor.script)
       IN  IF r.threw THEN __reject(r.h, d, r.val) ELSE r.h

(* new Promizen(executor).  A non-callable executor makes the constructor  *)
(* throw: the instance is returned to nobody, and the error reaches the    *)
(* caller.                                                                 *)
constructor(h, executor) ==
  IF ~executor.callable THEN [h EXCEPT !.fault = NotCallable]
  ELSE LET d == Len(h.P) + 1
           r == runExecutor([h EXCEPT !.P = Append(@, NewPromizen)], d,
                            executor.script)
       IN  IF r.threw THEN reject(r.h, d, r.val) ELSE r.h

(* ------------------------------ the system ----------------------------- *)
Heap == [P |-> P, queue |-> queue, latches |-> latches, log |-> log,
         regs |-> regs, fault |-> Null]

Becomes(h) ==
  /\ P' = h.P
  /\ queue' = h.queue
  /\ latches' = h.latches
  /\ log' = h.log
  /\ regs' = h.regs
  /\ fault' = h.fault

Ids == 1..Len(P)

(* The promizens made by then.                                             *)
Derived == {regs[i].dst : i \in DOMAIN regs}

(* The promizens made by __resolveValue's x.then(...): no caller holds them. *)
Internal ==
  {regs[i].dst : i \in {j \in DOMAIN regs : regs[j].onFulfilled.k = "adoptF"}}

(* The promizens made by new Promizen(executor) outside then.              *)
Roots == Ids \ Derived

(* The promizens a caller can hold.                                        *)
Held == Ids \ Internal

(* The inputs of the callers.  The calling programs come in families,     *)
(* env.  "settle" programs settle the promizens they construct with a      *)
(* plain value, with themselves, with the next or with the first promizen, *)
(* call a kept resolve or reject again, and chain on them without          *)
(* handlers.  "chain" programs settle each promizen once with a plain      *)
(* value and chain handlers of every kind.  "thenable" programs resolve    *)
(* their first promizen with undefined or with a foreign object, whose     *)
(* then calls back at once or later, throws or is no function, and the     *)
(* others with a plain value; they also call new Promizen with something   *)
(* that is not a function.  "executor" programs construct promizens with   *)
(* executors that settle or throw while they run.  "reject" programs only  *)
(* reject the promizens they construct, with a promizen (the first one),   *)
(* with a foreign thenable or with an object whose then cannot be read,    *)
(* and chain on them without handlers.  The scripted programs make the calls of Program in  *)
(* order on the promizen the last call returned, while the host runs the   *)
(* micro-tasks whenever there are some.                                    *)
Scripted == {"chain3", "usage", "length"}

Envs == {"settle", "chain", "thenable", "executor", "reject"} \cup Scripted

Call(op, f) == [op |-> op, f |-> f]

(* "chain3": S.then(f1).then(f2).then(f3), f1 returning a new promizen     *)
(* that is fulfilled with 5 later.  "usage": the example of the            *)
(* documentation.  "length": then(v => v.length) on a promizen whose       *)
(* executor called resolve('How are u?').                                  *)
Program ==
  CASE env = "chain3" ->
         <<Call("then", Fresh), Call("then", Add(1)), Call("then", Mul(2))>>
    [] env = "usage" ->
         <<Call("then", Ret(Str(2))), Call("then", Throw(Str(3))),
           Call("catch", Ret(Undefined))>>
    [] env = "length" -> <<Call("then", Length)>>
    [] OTHER -> <<>>

(* The calls of then and catch the program has made.                       *)
UserRegs == {i \in DOMAIN regs : regs[i].onFulfilled.k # "adoptF"}

Done == Cardinality(UserRegs)

(* The promizen the last call of the program returned.                     *)
Last ==
  IF UserRegs = {} THEN 1
  ELSE regs[CHOOSE i \in UserRegs : \A j \in UserRegs : j <= i].dst

NextCall ==
  IF P # <<>> /\ Done < Len(Program) THEN {Program[Done + 1]} ELSE {}

ValidValues == {Plain(1), Undefined} \cup {Pref(i) : i \in Roots} \cup {Obj(k) : k \in DOMAIN Objects}

SettleInputs ==
  CASE env = "settle" ->
         {<<p, x>> \in Roots \X ValidValues :
            x \in {Plain(1), Pref(p), Pref(p + 1), Pref(1)}}
    [] env = "chain" -> Roots \X {Plain(1)}
    [] env = "thenable" ->
         {<<p, x>> \in Roots \X ValidValues :
            IF p = 1 THEN x.t \in {"object", "undefined"} ELSE x = Plain(1)}
    [] env = "executor" -> Roots \X {Plain(1)}
    [] env = "chain3" ->
         ((Roots \cap {1}) \X {Plain(1)}) \cup ((Roots \ {1}) \X {Plain(5)})
    [] env = "usage" ->
         IF Done = Len(Program) THEN (Roots \cap {1}) \X {Str(1)} ELSE {}
    [] env = "length" -> {}
    [] env = "reject" -> {}

Reasons ==
  CASE env \in Scripted -> {}
    [] env = "reject"   -> {Pref(1), Obj(1), Obj(5)}
    [] OTHER            -> {Plain(1)}

Functions ==
  IF env = "chain"
    THEN {Ret(Plain(2)), Throw(Plain(3)), RetSelf, Ret(Pref(1)), Ret(Obj(1))}
    ELSE {}

(* The promizens the programs chain on.                                    *)
Sources ==
  CASE env = "chain"    -> Held
    [] env = "executor" -> {}
    [] env \in Scripted -> IF NextCall = {} THEN {} ELSE {Last}
    [] OTHER            -> Roots

(* What the executors of the "executor" programs throw.                    *)
Boom == Plain(4)

(* The executors of the programs.  "thenable": not a function.  "length":  *)
(* one that calls resolve('How are u?').  "executor": one that only        *)
(* throws; ones that call resolve or reject and then throw; the executors  *)
(* of test_adapter.js resolved and rejected.                               *)
Executors ==
  CASE env = "thenable" -> {Executor(FALSE, <<>>)}
    [] env = "length" ->
         IF P = <<>> THEN {Executor(TRUE, <<Step("res", Str(1))>>)} ELSE {}
    [] env = "executor" ->
         {Executor(TRUE, <<Step("throw", Boom)>>),
          Executor(TRUE, <<Step("res", Plain(1)), Step("throw", Boom)>>),
          Executor(TRUE, <<Step("rej", Plain(1)), Step("throw", Boom)>>),
          Executor(TRUE, <<Step("res", Obj(4)), Step("throw", Boom)>>),
          Executor(TRUE, <<Step("res", Plain(1))>>),
          Executor(TRUE, <<Step("rej", Plain(1))>>)}
         \cup {Executor(TRUE, <<Step("res", Pref(1)), Step("throw", Boom)>>) :
                 i \in Ids \cap {1}}
    [] OTHER -> {}

HandlerPairs ==
  IF env \in Scripted
    THEN {<<c.f, None>> : c \in {c \in NextCall : c.op = "then"}}
    ELSE {<<None, None>>} \cup {<<f, f>> : f \in Functions}

CatchFunctions ==
  IF env \in Scripted
    THEN {c.f : c \in {c \in NextCall : c.op = "catch"}}
    ELSE Functions \cap {Ret(Plain(2))}

CallbackValues == {Plain(2), Pref(2)} \cap ({Plain(2)} \cup ValidValues)

(* The room the programs have for one more promizen: a scripted program    *)
(* constructs one promizen and makes the calls of its script; an           *)
(* "executor" program may start with a promizen of deferred().             *)
MayConstruct ==
  CASE env \in Scripted  -> P = <<>> /\ env # "length"
    [] env = "executor"  -> P = <<>>
    [] OTHER             -> Cardinality(Held) < MaxHeld

MayChain == env \in Scripted \/ Cardinality(Held) < MaxHeld

Init ==
  /\ P = <<>>
  /\ queue = <<>>
  /\ latches = <<>>
  /\ log = <<>>
  /\ regs = <<>>
  /\ ignored = 0
  /\ env \in Envs
  /\ made = <<>>
  /\ fault = Null

(* new Promizen(executor) with an executor that only keeps resolve and     *)
(* reject for later (test_adapter.js deferred).                            *)
Construct ==
  /\ MayConstruct
  /\ Becomes([Heap EXCEPT !.P = Append(@, NewPromizen)])
  /\ UNCHANGED <<ignored, env, made>>

(* new Promizen(executor) with an executor that settles or throws while it *)
(* runs, or with a non-function.                                           *)
New(e) ==
  /\ Cardinality(Held) < MaxHeld
  /\ Len(made) < MaxMade
  /\ Becomes(constructor(Heap, e))
  /\ made' = IF e.callable
               THEN Append(made, [p |-> Len(P) + 1, executor |-> e])
               ELSE made
  /\ UNCHANGED <<ignored, env>>

(* ignored: the promizen whose kept resolve / reject was last called when  *)
(* its fate was already resolved (0: no such call yet); only "settle" and  *)
(* "thenable" programs make such calls.                                    *)
Settling(p) ==
  IF P[p].fate = UNRESOLVED THEN UNCHANGED ignored
  ELSE /\ env \in {"settle", "thenable"}
       /\ ignored' = p

(* The kept resolve of a root promizen is called.                          *)
Resolve(p, x) ==
  /\ Settling(p)
  /\ Becomes(resolve(Heap, p, x))
  /\ UNCHANGED <<env, made>>

(* The kept reject of a root promizen is called.                           *)
Reject(p, r) ==
  /\ Settling(p)
  /\ Becomes(reject(Heap, p, r))
  /\ UNCHANGED <<env, made>>

Then(s, f, r) ==
  /\ MayChain
  /\ Becomes(then(Heap, s, f, r))
  /\ UNCHANGED <<ignored, env, made>>

Catch(s, r) ==
  /\ MayChain
  /\ Becomes(catch(Heap, s, r))
  /\ UNCHANGED <<ignored, env, made>>

(* The host runs the oldest micro-task.                                    *)
RunTask ==
  /\ queue # <<>>
  /\ Becomes(microtask([Heap EXCEPT !.queue = Tail(@)], Head(queue)))
  /\ UNCHANGED <<ignored, env, made>>

(* A foreign thenable that kept its callbacks calls one of them later.     *)
CallBack(l, which, v) ==
  /\ latches[l].kept
  /\ latches[l].n < MaxCalls
  /\ Becomes(IF which = "res" THEN resolvePromise(Heap, l, v)
             ELSE rejectPromise(Heap, l, v))
  /\ UNCHANGED <<ignored, env, made>>

Next ==
  \/ Construct
  \/ \E e \in Executors : New(e)
  \/ \E in \in SettleInputs : Resolve(in[1], in[2])
  \/ \E p \in Roots, r \in Reasons : Reject(p, r)
  \/ \E s \in Sources, hp \in HandlerPairs : Then(s, hp[1], hp[2])
  \/ \E s \in Sources, r \in CatchFunctions : Catch(s, r)
  \/ RunTask
  \/ \E l \in DOMAIN latches, which \in {"res", "rej"}, v \in CallbackValues :
       CallBack(l, which, v)

Spec == Init /\ [][Next]_vars

(* ------------------------------- claims -------------------------------- *)
Settled(p) == P[p].state # PENDING

(* C1: the state of a promizen changes at most once, from pending to       *)
(* fulfilled or to rejected; once it is fulfilled or rejected, no step     *)
(* changes its state, its value or its reason.                             *)
C1_SettledOnce ==
  [][\A p \in DOMAIN P :
       /\ P'[p].state \in {PENDING, FULFILLED, REJECTED}
       /\ Settled(p) =>
            /\ P'[p].state = P[p].state
            /\ P'[p].value = P[p].value
            /\ P'[p].reason = P[p].reason]_vars

(* A settled promizen whose kept resolve or reject was called again, after *)
(* a handler chained on it has run.                                        *)
C1_Witness ==
  \E i \in DOMAIN log :
    /\ ignored = log[i].src
    /\ P[ignored].state = FULFILLED

(* C2: a call of a kept resolve or reject on a promizen whose fate is      *)
(* already resolved changes neither the promizens nor the queue nor the    *)
(* latches, and runs no handler.                                           *)
C2_LaterCallsIgnored ==
  [][\A p \in Roots :
       (/\ P[p].fate = RESOLVED
        /\ ignored' = p
        /\ \/ \E in \in SettleInputs : in[1] = p /\ Resolve(p, in[2])
           \/ \E r \in Reasons : Reject(p, r))
       => UNCHANGED <<P, queue, latches, log, regs>>]_vars

(* A rejected promizen with a continuation, one of whose kept callbacks    *)
(* was called again.                                                       *)
C2_Witness ==
  /\ ignored # 0
  /\ P[ignored].state = REJECTED
  /\ P[ignored].reason = Plain(1)
  /\ P[ignored].pendingHandlers # <<>>


(* The entry the log gets when the micro-task t runs.                      *)
Entry(t) ==
  [src |-> t.c.src, dst |-> t.c.dst, which |-> t.which,
   arg |-> IF t.which = "F" THEN P[t.c.src].value ELSE P[t.c.src].reason]

(* The registrations (calls of then) on which a handler has run.           *)
Ran == {log[i].dst : i \in DOMAIN log}

(* The registration was made when its source was already settled.          *)
AttachedSettled(i) ==
  \A k \in DOMAIN P[regs[i].src].pendingHandlers :
    P[regs[i].src].pendingHandlers[k].dst # regs[i].dst

(* C3: a handler runs only in a micro-task taken from the queue, never     *)
(* inside then, catch, resolve, reject or a thenable's callback: the only  *)
(* step that runs a handler takes the oldest task from the queue and runs  *)
(* the handler of that task alone.                                         *)
C3_HandlersDeferred ==
  [][log' # log =>
       /\ queue # <<>>
       /\ log' = Append(log, Entry(Head(queue)))
       /\ Len(queue') >= Len(queue) - 1
       /\ SubSeq(queue', 1, Len(queue) - 1) = Tail(queue)]_vars

(* then has returned on a settled source and its handler has not run: its  *)
(* task waits in the queue behind the task of an earlier registration,     *)
(* made while the source was pending and queued by the settlement.         *)
C3_Witness ==
  \E i, j \in DOMAIN regs :
    /\ regs[i].src = regs[j].src
    /\ Callable(regs[i].onFulfilled) /\ Callable(regs[j].onFulfilled)
    /\ ~AttachedSettled(i) /\ AttachedSettled(j)
    /\ regs[i].dst \notin Ran /\ regs[j].dst \notin Ran
    /\ Len(queue) = 2
    /\ queue[1].c.dst = regs[i].dst /\ queue[2].c.dst = regs[j].dst

(* C4: the handlers chained on one promizen run in the order of the calls  *)
(* of then: when a handler runs, the handler of every earlier registration *)
(* on the same promizen has already run.                                   *)
C4_AttachmentOrder ==
  \A j \in DOMAIN log :
    \A a, b \in DOMAIN regs :
      (a < b /\ regs[a].src = regs[b].src /\ regs[b].dst = log[j].dst)
      => \E i \in 1..(j - 1) : log[i].dst = regs[a].dst

(* Two handlers of one promizen have run, the first chained before the     *)
(* promizen settled and the second after.                                  *)
C4_Witness ==
  \E a, b \in DOMAIN regs :
    /\ a < b /\ regs[a].src = regs[b].src
    /\ ~AttachedSettled(a) /\ AttachedSettled(b)
    /\ regs[a].dst \in Ran /\ regs[b].dst \in Ran

(* C5: a registration runs at most one handler, at most once: the first    *)
(* with the value of its source, which is then fulfilled, or the second    *)
(* with the reason of its source, which is then rejected; and once the     *)
(* queue is drained, every registration on a settled promizen has run.     *)
C5_OneHandlerOnce ==
  /\ \A i, j \in DOMAIN log : log[i].dst = log[j].dst => i = j
  /\ \A i \in DOMAIN log :
       IF log[i].which = "F"
         THEN /\ P[log[i].src].state = FULFILLED
              /\ log[i].arg = P[log[i].src].value
         ELSE /\ P[log[i].src].state = REJECTED
              /\ log[i].arg = P[log[i].src].reason
  /\ queue = <<>> =>
       \A i \in DOMAIN regs : Settled(regs[i].src) => regs[i].dst \in Ran

(* A registration with two handlers on a promizen that was rejected after  *)
(* the call of then: the second handler has run, with the reason, and the  *)
(* queue is drained.                                                       *)
C5_Witness ==
  \E i \in DOMAIN regs, j \in DOMAIN log :
    /\ Callable(regs[i].onFulfilled) /\ Callable(regs[i].onRejected)
    /\ ~AttachedSettled(i)
    /\ log[j].dst = regs[i].dst
    /\ log[j].which = "R" /\ log[j].arg = Plain(1)
    /\ queue = <<>>


(* The handler a log entry is a run of, as it was given to then.           *)
RegOf(d) == regs[CHOOSE i \in DOMAIN regs : regs[i].dst = d]

Given(e) ==
  IF e.which = "F" THEN RegOf(e.dst).onFulfilled ELSE RegOf(e.dst).onRejected

(* s, once settled, has the state, value and reason of x.                  *)
Mirrors(s, x) ==
  Settled(s) =>
    /\ P[s].state = P[x].state
    /\ P[s].value = P[x].value
    /\ P[s].reason = P[x].reason

(* The registrations __resolveValue makes on a promizen x to adopt it.     *)
Adoptions == {i \in DOMAIN regs : regs[i].onFulfilled.k = "adoptF"}

Adopter(i) == regs[i].onFulfilled.v.v

RejectionTasks(handlers) ==
  [k \in 1..Len(handlers) |-> Task("R", handlers[k])]

(* C6: resolving an unresolved promizen with itself rejects it with the    *)
(* cycle TypeError inside the call, whatever continuations are pending on  *)
(* it, and queues the rejection task of each of them, in order; no handler *)
(* runs in the call, and the handlers of a promizen rejected with the      *)
(* TypeError only ever run as rejection handlers, with the TypeError.  The *)
(* same holds when a handler returns the promizen its then returned.       *)
C6_SelfStep ==
  \A p \in Roots :
    (P[p].fate = UNRESOLVED /\ Resolve(p, Pref(p))) =>
      /\ P'[p].state = REJECTED
      /\ P'[p].reason = CycleError
      /\ P'[p].value = Null
      /\ queue' = queue \o RejectionTasks(P[p].pendingHandlers)
      /\ log' = log

C6_SelfInv ==
  \A i \in DOMAIN log :
    /\ Given(log[i]) = RetSelf =>
         P[log[i].dst].state = REJECTED /\ P[log[i].dst].reason = CycleError
    /\ (P[log[i].src].state = REJECTED /\ P[log[i].src].reason = CycleError) =>
         log[i].which = "R" /\ log[i].arg = CycleError

C6_SelfResolution == [](C6_SelfInv) /\ [][C6_SelfStep]_vars

(* A promizen with two pending continuations was resolved with itself: it  *)
(* is rejected with the TypeError and both rejection handlers have run.    *)
C6_Witness ==
  \E p \in Roots :
    /\ P[p].state = REJECTED /\ P[p].reason = CycleError
    /\ Len(P[p].pendingHandlers) >= 2
    /\ \A k \in DOMAIN P[p].pendingHandlers : P[p].pendingHandlers[k].dst \in Ran

(* C7: of the calls a foreign then makes of its two callbacks, the first   *)
(* alone decides: a rejection rejects the promizen with that reason, a     *)
(* plain value fulfils it with that value, the promizen itself rejects it  *)
(* with the TypeError, another promizen is adopted; every later call, of   *)
(* either callback, at once or later, changes nothing.                     *)
C7_LatchInv ==
  \A l \in DOMAIN latches :
    latches[l].first # <<>> =>
      LET st == latches[l].first[1]
          s  == latches[l].owner
      IN  /\ latches[l].called
          /\ st.op = "rej" => P[s].state = REJECTED /\ P[s].reason = st.v
          /\ (st.op = "res" /\ st.v.t = "plain") =>
               P[s].state = FULFILLED /\ P[s].value = st.v
          /\ (st.op = "res" /\ st.v = Pref(s)) =>
               P[s].state = REJECTED /\ P[s].reason = CycleError
          /\ (st.op = "res" /\ st.v.t = "promizen" /\ st.v # Pref(s)) =>
               Mirrors(s, st.v.v)

C7_LatchStep ==
  \A l \in DOMAIN latches, which \in {"res", "rej"}, v \in CallbackValues :
    (latches[l].called /\ CallBack(l, which, v)) =>
      UNCHANGED <<P, queue, log, regs>>

C7_SharedLatch == [](C7_LatchInv) /\ [][C7_LatchStep]_vars

(* A thenable that resolved at once and kept its callbacks has called one  *)
(* of them again later: the promizen is fulfilled with the first value.    *)
C7_Witness ==
  \E l \in DOMAIN latches :
    /\ latches[l].kept /\ latches[l].n >= 2
    /\ latches[l].first = <<Step("res", Plain(1))>>
    /\ P[latches[l].owner].state = FULFILLED
    /\ P[latches[l].owner].value = Plain(1)

(* C8: a promizen S resolved with another promizen x stays pending inside  *)
(* the call and registers on x; it never settles while x is pending, once  *)
(* settled it has the state and the value or reason of x, and once x is    *)
(* settled and the queue is drained S is settled too.                      *)
C8_AdoptStep ==
  \A p \in Roots, x \in Roots :
    (x # p /\ P[p].fate = UNRESOLVED /\ Resolve(p, Pref(x))) =>
      /\ P'[p].state = PENDING
      /\ \E i \in DOMAIN regs' \ DOMAIN regs :
           regs'[i].src = x /\ regs'[i].onFulfilled = AdoptF(p)

C8_AdoptInv ==
  \A i \in Adoptions :
    /\ Mirrors(Adopter(i), regs[i].src)
    /\ (queue = <<>> /\ Settled(regs[i].src)) => Settled(Adopter(i))

C8_Adoption == [](C8_AdoptInv) /\ [][C8_AdoptStep]_vars

(* A chain of three: a was resolved with b and b with c, and a is          *)
(* fulfilled with the value c was fulfilled with.                          *)
C8_Witness ==
  \E i, j \in Adoptions :
    /\ regs[i].src = Adopter(j)
    /\ Adopter(i) # regs[j].src
    /\ i < j
    /\ P[regs[j].src].state = FULFILLED
    /\ P[Adopter(i)].state = FULFILLED
    /\ P[Adopter(i)].value = Plain(1)

(* C9: a registration whose first handler is missing, on a fulfilled       *)
(* promizen, fulfils the promizen then returned with the same value; one   *)
(* whose second handler is missing, on a rejected promizen, rejects it     *)
(* with the same reason; in both cases at the latest when the queue is     *)
(* drained.                                                                *)
C9_PassThrough ==
  \A i \in DOMAIN regs :
    LET s == regs[i].src
        d == regs[i].dst
    IN  /\ (~Callable(regs[i].onFulfilled) /\ P[s].state = FULFILLED) =>
             /\ Settled(d) => P[d].state = FULFILLED /\ P[d].value = P[s].value
             /\ queue = <<>> => Settled(d)
        /\ (~Callable(regs[i].onRejected) /\ P[s].state = REJECTED) =>
             /\ Settled(d) => P[d].state = REJECTED /\ P[d].reason = P[s].reason
             /\ queue = <<>> => Settled(d)

(* then without handlers on a rejected promizen: the promizen it returned  *)
(* is rejected with the same reason.                                       *)
C9_Witness ==
  \E i \in DOMAIN regs :
    /\ regs[i].onFulfilled = None /\ regs[i].onRejected = None
    /\ P[regs[i].src].state = REJECTED
    /\ P[regs[i].dst].state = REJECTED
    /\ P[regs[i].dst].reason = P[regs[i].src].reason
    /\ P[regs[i].src].reason = Plain(1)

(* C10: the promizen then returned stays pending and unresolved until its  *)
(* handler has run, and is then settled by what the handler did, whichever *)
(* of the two handlers it was: a thrown value rejects it with that value,  *)
(* a returned plain value fulfils it, the returned promizen itself rejects *)
(* it with the TypeError, another returned promizen is adopted, a returned *)
(* thenable is unwrapped.                                                  *)
C10_SettledByHandler ==
  /\ \A d \in Derived \ Ran :
       P[d].state = PENDING /\ P[d].fate = UNRESOLVED
  /\ \A i \in DOMAIN log :
       LET f == Given(log[i])
           d == log[i].dst
       IN  /\ P[d].fate = RESOLVED
           /\ f.k = "throw" => P[d].state = REJECTED /\ P[d].reason = f.v
           /\ (f.k = "ret" /\ f.v.t = "plain") =>
                P[d].state = FULFILLED /\ P[d].value = f.v
           /\ f.k = "retSelf" =>
                P[d].state = REJECTED /\ P[d].reason = CycleError
           /\ (f.k = "ret" /\ f.v.t = "promizen") =>
                /\ Mirrors(d, f.v.v)
                /\ \E a \in Adoptions : Adopter(a) = d /\ regs[a].src = f.v.v
           /\ (f.k = "ret" /\ f.v.t = "object") =>
                LET st == Objects[f.v.v].script[1]
                IN  IF st.op = "res"
                      THEN P[d].state = FULFILLED /\ P[d].value = st.v
                      ELSE P[d].state = REJECTED /\ P[d].reason = st.v
           /\ f.k \in {"adoptF", "adoptR"} =>
                P[d].state = FULFILLED /\ P[d].value = Undefined

(* A rejection handler that returned a plain value: the promizen then      *)
(* returned is fulfilled with it.                                          *)
C10_Witness ==
  \E i \in DOMAIN log :
    /\ log[i].which = "R"
    /\ Given(log[i]) = Ret(Plain(2))
    /\ P[log[i].dst].state = FULFILLED
    /\ P[log[i].dst].value = Plain(2)

(* The executor threw at the end of its script.                            *)
Threw(e) == e.script # <<>> /\ e.script[Len(e.script)].op = "throw"

(* C11: a promizen whose executor threw is rejected with the thrown value  *)
(* when the executor had made no call of resolve or reject before; when it *)
(* had, the first call decides and what was thrown is dropped: rejected    *)
(* with the reason of reject, fulfilled with the plain value of resolve,   *)
(* or, resolved with a promizen or a thenable, pending until that one      *)
(* settles or calls back, and then settled as that one is.                 *)
C11_ExecutorThrows ==
  \A i \in DOMAIN made :
    LET p == made[i].p
        s == made[i].executor.script
        e == s[Len(s)]
        x == s[1]
    IN  Threw(made[i].executor) =>
          /\ P[p].fate = RESOLVED
          /\ Len(s) = 1 => P[p].state = REJECTED /\ P[p].reason = e.v
          /\ (Len(s) > 1 /\ x.op = "rej") =>
               P[p].state = REJECTED /\ P[p].reason = x.v
          /\ (Len(s) > 1 /\ x.op = "res" /\ x.v.t = "plain") =>
               P[p].state = FULFILLED /\ P[p].value = x.v
          /\ (Len(s) > 1 /\ x.op = "res" /\ x.v.t = "promizen") =>
               Mirrors(p, x.v.v)
          /\ (Len(s) > 1 /\ x.op = "res" /\ x.v.t = "object") =>
               (Settled(p) =>
                  \E l \in DOMAIN latches :
                    latches[l].owner = p /\ latches[l].first # <<>>)

(* An executor that only threw, its promizen rejected with what it threw;  *)
(* and an executor that resolved with a pending promizen and then threw,   *)
(* its promizen fulfilled as that promizen was later.                      *)
C11_Witness ==
  /\ \E i \in DOMAIN made :
       /\ made[i].executor.script = <<Step("throw", Boom)>>
       /\ P[made[i].p].state = REJECTED
       /\ P[made[i].p].reason = Boom
  /\ \E i \in DOMAIN made :
       /\ made[i].executor.script =
            <<Step("res", Pref(1)), Step("throw", Boom)>>
       /\ P[made[i].p].state = FULFILLED

(* C12: no call of resolve, reject, then or catch, no callback of a        *)
(* thenable and no micro-task throws to its caller; the one error a caller *)
(* sees is the TypeError of new Promizen with a non-function.  An error    *)
(* raised by reading the then member of the value resolved with, or thrown *)
(* by its then method before it called back, rejects the promizen with     *)
(* that error inside the call of resolve.                                  *)
C12_Inv == fault \in {Null, NotCallable}

(* The promizens whose fate the step resolves.                             *)
Resolving == {p \in DOMAIN P : P[p].fate = UNRESOLVED /\ P'[p].fate = RESOLVED}

C12_Step ==
  /\ fault' # Null => \E e \in Executors : ~e.callable /\ New(e)
  /\ \A p \in Resolving, in \in SettleInputs :
       LET x == in[2]
       IN  (in[1] = p /\ x.t = "object" /\ Resolve(p, x))
           => /\ Objects[x.v].getThrows =>
                   P'[p].state = REJECTED /\ P'[p].reason = Objects[x.v].err
              /\ Objects[x.v].script = <<Step("throw", ThenError)>> =>
                   P'[p].state = REJECTED /\ P'[p].reason = ThenError

NotThenable(x) ==
  /\ x.t # "promizen"
  /\ x.t = "object" => ~Objects[x.v].getThrows /\ ~Objects[x.v].callable

(* C13, as stated: resolve(v) with v neither a promizen nor a thenable     *)
(* fulfils the promizen asynchronously, that is, the promizen is still     *)
(* pending when the call returns.                                          *)
C13_Original ==
  [][\A p \in Resolving, in \in SettleInputs :
       (in[1] = p /\ NotThenable(in[2]) /\ Resolve(p, in[2]))
       => P'[p].state = PENDING]_vars

(* C13, amended: resolve(v) with v neither a promizen nor a thenable       *)
(* fulfils the promizen with exactly v inside the call, synchronously; the *)
(* call runs no handler, it only queues the tasks of the pending ones.     *)
C13_FulfilledInCall ==
  [][\A p \in Resolving, in \in SettleInputs :
       (in[1] = p /\ NotThenable(in[2]) /\ Resolve(p, in[2]))
       => /\ P'[p].state = FULFILLED
          /\ P'[p].value = in[2]
          /\ log' = log
          /\ Len(queue') = Len(queue) + Len(P[p].pendingHandlers)]_vars

(* A promizen fulfilled with the object it was resolved with, whose then   *)
(* member is no function.                                                  *)
C13_Witness ==
  \E p \in Roots :
    /\ P[p].state = FULFILLED
    /\ P[p].value.t = "object"
    /\ NotThenable(P[p].value)

(* The k-th call of then or catch the program made, and the promizen it    *)
(* returned.                                                               *)
Nth(k) == CHOOSE i \in UserRegs : Cardinality({j \in UserRegs : j <= i}) = k

Dst(k) == regs[Nth(k)].dst

(* The runs of the handlers given in the k-th call.                        *)
Runs(k) == {i \in DOMAIN log : log[i].dst = Dst(k)}

(* The promizens the handlers of the program constructed.                  *)
Made == Roots \ {1}

(* C14: in S.then(f1).then(f2).then(f3), S fulfilled, f1 returning a new   *)
(* pending promizen that is fulfilled with 5 later: each of f1, f2, f3 is  *)
(* called at most once, in this order, f2 only once the promizen f1        *)
(* returned is fulfilled, with 5, and f3 with f2(5); the last promizen is  *)
(* only ever fulfilled with f3(f2(5)), and is so once the calls are made,  *)
(* both promizens are fulfilled and the queue is drained; each handler is  *)
(* run by a micro-task taken from the queue.                               *)
C14_Inv ==
  env = "chain3" =>
    /\ \A k \in 1..Done : Cardinality(Runs(k)) <= 1
    /\ \A k \in 2..Done : Runs(k) # {} =>
         /\ Runs(k - 1) # {}
         /\ \A i \in Runs(k - 1), j \in Runs(k) : i < j
    /\ \A i \in DOMAIN log : log[i].which = "F"
    /\ (Done >= 2 /\ Runs(2) # {}) =>
         /\ \E n \in Made : P[n].state = FULFILLED /\ P[n].value = Plain(5)
         /\ \A i \in Runs(2) : log[i].arg = Plain(5)
    /\ (Done >= 3 /\ Runs(3) # {}) =>
         \A i \in Runs(3) : log[i].arg = Apply(Add(1), Plain(5))
    /\ (Done >= 3 /\ Settled(Dst(3))) =>
         /\ P[Dst(3)].state = FULFILLED
         /\ P[Dst(3)].value = Apply(Mul(2), Apply(Add(1), Plain(5)))
    /\ (/\ Done = 3
        /\ queue = <<>>
        /\ Settled(1)
        /\ \E n \in Made : Settled(n))
       => /\ Settled(Dst(3))
          /\ \A k \in 1..3 : Cardinality(Runs(k)) = 1

C14_Step ==
  (env = "chain3" /\ log' # log) =>
    /\ queue # <<>>
    /\ log' = Append(log, Entry(Head(queue)))

C14_ChainOfThree == [](C14_Inv) /\ [][C14_Step]_vars

(* The chain run to its end: the last promizen fulfilled with f3(f2(5)).   *)
C14_Witness ==
  /\ env = "chain3"
  /\ Done = 3
  /\ P[Last].state = FULFILLED
  /\ P[Last].value = Plain(12)

(* The calls of then or catch with no onFulfilled and a function as        *)
(* onRejected.                                                             *)
Caught ==
  {i \in UserRegs : regs[i].onFulfilled = None /\ Callable(regs[i].onRejected)}

(* C15: catch(h) does what then(null, h) does, whatever the state of the   *)
(* promizen it is called on; whenever that promizen settles, h is called   *)
(* only if it is rejected, then with its reason, and if it is fulfilled    *)
(* the promizen catch returned is fulfilled with the same value without h  *)
(* being called.                                                           *)
C15_Inv ==
  \A i \in Caught :
    LET s == regs[i].src
        d == regs[i].dst
    IN  /\ \A k \in DOMAIN log : log[k].dst = d =>
             /\ log[k].which = "F" <=> P[s].state = FULFILLED
             /\ log[k].which = "R" <=> P[s].state = REJECTED
             /\ log[k].which = "R" => log[k].arg = P[s].reason
             /\ \A j \in DOMAIN log : log[j].dst = d => j = k
        /\ Settled(d) => \E k \in DOMAIN log : log[k].dst = d
        /\ (P[s].state = FULFILLED /\ Settled(d)) =>
             P[d].state = FULFILLED /\ P[d].value = P[s].value

C15_Step ==
  \A s \in Sources, r \in CatchFunctions :
    (Len(regs') = Len(regs) + 1 /\ Catch(s, r))
    => Becomes(then(Heap, s, None, r))

C15_CatchIsThen == [](C15_Inv) /\ [][C15_Step]_vars

(* catch called on a pending promizen that was fulfilled later: the        *)
(* promizen catch returned is fulfilled with the same value.               *)
C15_Witness ==
  \E i \in Caught :
    /\ ~AttachedSettled(i)
    /\ P[regs[i].src].state = FULFILLED
    /\ P[regs[i].dst].state = FULFILLED
    /\ P[regs[i].dst].value = P[regs[i].src].value

(* C16: the usage example p.then(h1).then(h2).catch(h3), p resolved with   *)
(* 'How are u?' by a timer after the calls, h1 returning a string, h2      *)
(* throwing a string, h3 returning nothing.  While p is pending after the  *)
(* calls it holds one pair of pending handlers and the promizen catch      *)
(* returned holds none and is pending; h1, h2, h3 run at most once each,   *)
(* in this order, h1 with the value of p, h2 with what h1 returned, h3 (as *)
(* a rejection handler) with what h2 threw; and once the queue is drained  *)
(* p is fulfilled with 'How are u?' and the promizen catch returned is     *)
(* fulfilled with undefined.                                               *)
C16_UsageExample ==
  (env = "usage" /\ P # <<>>) =>
    /\ (Done = 3 /\ P[1].state = PENDING) =>
         /\ P[1].fate = UNRESOLVED
         /\ Len(P[1].pendingHandlers) = 1
         /\ P[Dst(3)] = NewPromizen
         /\ log = <<>>
    /\ \A k \in 1..Done : Cardinality(Runs(k)) <= 1
    /\ \A k \in 2..Done : Runs(k) # {} =>
         /\ Runs(k - 1) # {}
         /\ \A i \in Runs(k - 1), j \in Runs(k) : i < j
    /\ \A i \in DOMAIN log :
         /\ log[i].dst = Dst(1) => log[i].which = "F" /\ log[i].arg = Str(1)
         /\ log[i].dst = Dst(2) => log[i].which = "F" /\ log[i].arg = Str(2)
         /\ log[i].dst = Dst(3) => log[i].which = "R" /\ log[i].arg = Str(3)
    /\ Settled(1) => P[1].state = FULFILLED /\ P[1].value = Str(1)
    /\ (Done = 3 /\ Settled(Dst(3))) =>
         P[Dst(3)].state = FULFILLED /\ P[Dst(3)].value = Undefined
    /\ (Done = 3 /\ Settled(1) /\ queue = <<>>) =>
         /\ Settled(Dst(3))
         /\ \A k \in 1..3 : Cardinality(Runs(k)) = 1

(* The example run to its end.                                             *)
C16_Witness ==
  /\ env = "usage"
  /\ Done = 3
  /\ Len(log) = 3
  /\ P[1].state = FULFILLED
  /\ P[1].value = Str(1)
  /\ P[Last].state = FULFILLED
  /\ P[Last].value = Undefined

(* The promizens made as test_adapter.js deferred makes them: the executor *)
(* only keeps resolve and reject.                                          *)
Deferred == Roots \ {made[i].p : i \in DOMAIN made}

(* The promizen new Promizen(executor) would make now with an executor     *)
(* whose script is the one call st.                                        *)
AsIfInside(st) == constructor(Heap, Executor(TRUE, <<st>>)).P[Len(P) + 1]

Fields(r) == <<r.fate, r.state, r.value, r.reason>>

FulfilmentTasks(handlers) ==
  [k \in 1..Len(handlers) |-> Task("F", handlers[k])]

(* C17: a promizen made by deferred() is pending, with no value, no reason *)
(* and none of its handlers queued or run, as long as its fate is          *)
(* unresolved, and its fate is resolved only by a call of its kept resolve *)
(* or reject.  Such a call leaves it with the fate, state, value and       *)
(* reason that new Promizen gives a promizen whose executor makes the same *)
(* call, and, when the call settles it, queues the task of every handler   *)
(* attached so far, in order.                                              *)
C17_Inv ==
  \A p \in Deferred :
    P[p].fate = UNRESOLVED =>
      /\ Fields(P[p]) = Fields(NewPromizen)
      /\ \A i \in DOMAIN log : log[i].src # p
      /\ \A i \in DOMAIN queue : queue[i].c.src # p

C17_Step ==
  \A p \in Resolving :
    p \in Deferred =>
      /\ \/ \E in \in SettleInputs : in[1] = p /\ Resolve(p, in[2])
         \/ \E r \in Reasons : Reject(p, r)
      /\ \A in \in SettleInputs :
           (in[1] = p /\ in[2] # Pref(p) /\ Resolve(p, in[2])) =>
             /\ Fields(P'[p]) = Fields(AsIfInside(Step("res", in[2])))
             /\ P'[p].state = FULFILLED =>
                  queue' = queue \o FulfilmentTasks(P[p].pendingHandlers)
      /\ \A r \in Reasons :
           Reject(p, r) =>
             /\ Fields(P'[p]) = Fields(AsIfInside(Step("rej", r)))
             /\ queue' = queue \o RejectionTasks(P[p].pendingHandlers)

C17_Deferred == [](C17_Inv) /\ [][C17_Step]_vars

(* A handler attached to a pending promizen of deferred() has run after    *)
(* the kept resolve was called.                                            *)
C17_Witness ==
  \E i \in UserRegs :
    /\ regs[i].src \in Deferred
    /\ ~AttachedSettled(i)
    /\ P[regs[i].src].state = FULFILLED
    /\ regs[i].dst \in Ran

(* C18, as stated: then(v => v.length) on a promizen whose executor called *)
(* resolve('How are u?') returns a promizen that is fulfilled with 11.     *)
C18_Original ==
  (env = "length" /\ Done = 1 /\ Settled(Dst(1))) =>
    P[Dst(1)].state = FULFILLED /\ P[Dst(1)].value = Plain(11)

(* C18, amended: the promizen whose executor called resolve('How are u?')  *)
(* is fulfilled with that string when new Promizen returns; the promizen   *)
(* then(v => v.length) returns is pending until the queued task has run,   *)
(* and then fulfilled with 10, the length of the string.                   *)
C18_Length ==
  (env = "length" /\ P # <<>>) =>
    /\ P[1].state = FULFILLED
    /\ P[1].value = Str(1)
    /\ Done = 1 =>
         /\ Settled(Dst(1)) <=> queue = <<>>
         /\ Settled(Dst(1)) =>
              /\ P[Dst(1)].state = FULFILLED
              /\ P[Dst(1)].value = Plain(10)
              /\ Cardinality(Runs(1)) = 1
              /\ \A i \in Runs(1) : log[i].which = "F" /\ log[i].arg = Str(1)

(* The handler has run: the promizen then returned is fulfilled with 10.   *)
C18_Witness ==
  /\ env = "length"
  /\ Done = 1
  /\ P[Last].state = FULFILLED
  /\ P[Last].value = Plain(10)

(* The promizen p is resolved and still pending.                           *)
Locked(p) == P[p].fate = RESOLVED /\ P[p].state = PENDING

(* x is another promizen, or a foreign thenable that keeps the callbacks   *)
(* without calling them.                                                   *)
Awaited(p, x) ==
  \/ x.t = "promizen" /\ x # Pref(p)
  \/ /\ x.t = "object"
     /\ Objects[x.v].callable
     /\ Objects[x.v].keep
     /\ Objects[x.v].script = <<>>

(* C19: an accepted resolve(x), x another promizen or a thenable that has  *)
(* not called back, leaves the promizen resolved and pending; while it is  *)
(* so, a call of its kept resolve or reject changes nothing; and it        *)
(* settles only as x does: as the promizen x is settled, or as the first   *)
(* call of a callback by the thenable says.                                *)
C19_Step ==
  /\ \A p \in Resolving, in \in SettleInputs :
       (in[1] = p /\ Awaited(p, in[2]) /\ Resolve(p, in[2])) =>
         /\ P'[p].state = PENDING
         /\ \A q \in DOMAIN P : q # p => P'[q].state = P[q].state
  /\ \A p \in DOMAIN P \cap {ignored'} :
       (/\ Locked(p)
        /\ p \in Roots
        /\ \/ \E in \in SettleInputs : in[1] = p /\ Resolve(p, in[2])
           \/ \E r \in Reasons : Reject(p, r))
       => /\ Locked(p)'
          /\ UNCHANGED <<P, queue, latches, log, regs>>

C19_Inv ==
  /\ \A a \in Adoptions : Mirrors(Adopter(a), regs[a].src)
  /\ \A l \in DOMAIN latches :
       LET p == latches[l].owner
       IN  (latches[l].kept /\ Settled(p)) =>
             /\ latches[l].first # <<>>
             /\ LET st == latches[l].first[1]
                IN  /\ st.op = "rej" =>
                         P[p].state = REJECTED /\ P[p].reason = st.v
                    /\ (st.op = "res" /\ st.v.t = "plain") =>
                         P[p].state = FULFILLED /\ P[p].value = st.v
                    /\ (st.op = "res" /\ st.v.t = "promizen") =>
                         IF st.v.v = p
                           THEN P[p].state = REJECTED /\ P[p].reason = CycleError
                           ELSE Mirrors(p, st.v.v)

C19_ResolvedAndPending == [](C19_Inv) /\ [][C19_Step]_vars

(* A promizen resolved with a thenable that kept the callbacks and has not *)
(* called them: its kept resolve or reject was called again, and it is     *)
(* still resolved and pending.                                             *)
C19_Witness ==
  \E l \in DOMAIN latches :
    /\ latches[l].owner = ignored
    /\ latches[l].kept
    /\ latches[l].first = <<>>
    /\ Locked(ignored)

(* The promizen p was resolved with the promizen q: __resolveValue chained *)
(* the handlers that settle p on q.                                        *)
Waits(p, q) == \E a \in Adoptions : Adopter(a) = p /\ regs[a].src = q

(* The promizens reached from those of S in at most n steps of Waits.      *)
RECURSIVE Reach(_, _)
Reach(S, n) ==
  IF n = 0 THEN S
  ELSE Reach(S \cup {q \in Ids : \E p \in S : Waits(p, q)}, n - 1)

(* p is in a closed loop of promizens each resolved with the next.         *)
InCycle(p) == p \in Reach({q \in Ids : Waits(p, q)}, Len(P))

(* C20, as stated: a closed loop of two or more distinct promizens, each   *)
(* resolved with the next, is detected and ends in rejection: once the     *)
(* queue is drained, the promizens of the loop are rejected.               *)
C20_Original ==
  \A p \in Ids : (InCycle(p) /\ queue = <<>>) => P[p].state = REJECTED

(* C20, amended: __resolveValue detects only a promizen resolved with      *)
(* itself.  A closed loop of two or more distinct promizens, each resolved *)
(* with the next, is not detected: every promizen of the loop is resolved  *)
(* and pending, in every state from then on, whatever is called.           *)
C20_LoopStaysPending == \A p \in Ids : InCycle(p) => Locked(p)

(* Two promizens resolved with each other, the queue drained, and a later  *)
(* call of the kept resolve or reject of one of them dropped.              *)
C20_Witness ==
  \E p, q \in Ids :
    /\ p # q
    /\ Waits(p, q)
    /\ Waits(q, p)
    /\ queue = <<>>
    /\ ignored = p
    /\ Locked(p)
    /\ Locked(q)

(* The sequence s begins with the sequence t.                              *)
Extends(s, t) == Len(t) <= Len(s) /\ SubSeq(s, 1, Len(t)) = t

(* C21, as stated: the __pendingHandlers of a fulfilled or rejected        *)
(* promizen is empty.                                                      *)
C21_Original ==
  \A p \in DOMAIN P : Settled(p) => P[p].pendingHandlers = <<>>

(* C21, amended: __pendingHandlers is never emptied.  No step removes or   *)
(* changes a pair of it, the step that settles a promizen leaves the list  *)
(* as it was, and no pair is added to the list of a settled promizen: a    *)
(* settled promizen keeps the pairs given while it was pending, each of    *)
(* them queued or run once.                                                *)
C21_Step ==
  \A p \in DOMAIN P :
    /\ Extends(P'[p].pendingHandlers, P[p].pendingHandlers)
    /\ Settled(p)' => P'[p].pendingHandlers = P[p].pendingHandlers

C21_Inv ==
  \A p \in DOMAIN P :
    Settled(p) =>
      \A k \in DOMAIN P[p].pendingHandlers :
        LET d == P[p].pendingHandlers[k].dst
        IN  Cardinality({i \in DOMAIN queue : queue[i].c.dst = d})
              + Cardinality({i \in DOMAIN log : log[i].dst = d}) = 1

C21_HandlersKept == [](C21_Inv) /\ [][C21_Step]_vars

(* A fulfilled promizen whose list still holds the pair given while it was *)
(* pending, the handler of the pair having run.                            *)
C21_Witness ==
  \E p \in DOMAIN P :
    /\ P[p].state = FULFILLED
    /\ P[p].pendingHandlers # <<>>
    /\ P[p].pendingHandlers[1].dst \in Ran

(* C22: value and reason are null while the promizen is pending; a         *)
(* fulfilled promizen has a null reason and a rejected one a null value,   *)
(* so never both are set; and each is written at most once: value only in  *)
(* the step that fulfils the promizen, reason only in the step that        *)
(* rejects it.                                                             *)
C22_Inv ==
  \A p \in DOMAIN P :
    /\ P[p].state = PENDING => P[p].value = Null /\ P[p].reason = Null
    /\ P[p].state = FULFILLED => P[p].reason = Null
    /\ P[p].state = REJECTED => P[p].value = Null
    /\ P[p].value = Null \/ P[p].reason = Null

C22_Step ==
  \A p \in DOMAIN P :
    /\ P'[p].value # P[p].value =>
         P[p].state = PENDING /\ P'[p].state = FULFILLED
    /\ P'[p].reason # P[p].reason =>
         P[p].state = PENDING /\ P'[p].state = REJECTED

C22_ValueXorReason == [](C22_Inv) /\ [][C22_Step]_vars

(* A fulfilled promizen with its value and no reason beside a rejected one *)
(* with its reason and no value.                                           *)
C22_Witness ==
  \E p, q \in DOMAIN P :
    /\ P[p].state = FULFILLED
    /\ P[p].value = Plain(1)
    /\ P[p].reason = Null
    /\ P[q].state = REJECTED
    /\ P[q].reason = Plain(1)
    /\ P[q].value = Null

(* C23: an accepted reject(reason) rejects the promizen with exactly the   *)
(* reason inside the call, also when the reason is a promizen, the         *)
(* promizen itself or a foreign object: no then is read or called (no      *)
(* latch, no registration, no new promizen, no error), no handler runs,    *)
(* and for each pending pair the rejection task alone is queued, in order. *)
C23_RejectDirect ==
  [][\A p \in Resolving, r \in Reasons :
       Reject(p, r) =>
         /\ P'[p].state = REJECTED
         /\ P'[p].reason = r
         /\ P'[p].value = Null
         /\ Len(P') = Len(P)
         /\ \A q \in DOMAIN P : q # p => P'[q] = P[q]
         /\ latches' = latches
         /\ regs' = regs
         /\ log' = log
         /\ fault' = Null
         /\ queue' = queue \o RejectionTasks(P[p].pendingHandlers)]_vars

(* A promizen rejected with itself as the reason, the rejection task of    *)
(* the pair that was pending on it queued or run, and no latch made.       *)
C23_Witness ==
  \E p \in DOMAIN P :
    /\ P[p].state = REJECTED
    /\ P[p].reason = Pref(p)
    /\ P[p].pendingHandlers # <<>>
    /\ latches = <<>>
    /\ \E q \in DOMAIN P : P[q].state = REJECTED /\ P[q].reason = Obj(1)

(* The then methods that throw at the end of their script.                 *)
ThenThrows(l) ==
  LET s == Objects[latches[l].of].script
  IN  s # <<>> /\ s[Len(s)].op = "throw"

(* C24: a promizen resolved with a thenable whose then threw is rejected   *)
(* with what was thrown when the then had called no callback before; when  *)
(* it had, what was thrown is dropped and the first callback decides: the  *)
(* promizen is rejected with the reason or fulfilled with the plain value  *)
(* it was called with, or, called with a thenable that keeps the           *)
(* callbacks, is pending until that one calls back and then settled as it  *)
(* says.                                                                   *)
C24_ThenThrows ==
  \A l \in DOMAIN latches :
    LET p == latches[l].owner
        s == Objects[latches[l].of].script
        e == s[Len(s)]
        x == s[1]
    IN  ThenThrows(l) =>
          /\ P[p].fate = RESOLVED
          /\ Len(s) = 1 =>
               /\ latches[l].first = <<>>
               /\ P[p].state = REJECTED
               /\ P[p].reason = e.v
          /\ Len(s) > 1 => latches[l].first = <<x>> /\ latches[l].called
          /\ (Len(s) > 1 /\ x.op = "rej") =>
               P[p].state = REJECTED /\ P[p].reason = x.v
          /\ (Len(s) > 1 /\ x.op = "res" /\ x.v.t = "plain") =>
               P[p].state = FULFILLED /\ P[p].value = x.v
          /\ (Len(s) > 1 /\ x.op = "res" /\ x.v.t = "object") =>
               \E k \in DOMAIN latches :
                 /\ latches[k].owner = p
                 /\ latches[k].of = x.v.v
                 /\ IF latches[k].first = <<>> THEN Locked(p)
                    ELSE LET st == latches[k].first[1]
                         IN  /\ P[p].reason # e.v
                             /\ (st.op = "res" /\ st.v.t = "plain") =>
                                  P[p].state = FULFILLED /\ P[p].value = st.v
                             /\ st.op = "rej" =>
                                  P[p].state = REJECTED /\ P[p].reason = st.v

(* A then that called resolvePromise with a thenable and then threw: the   *)
(* promizen was fulfilled later, by the callback of that thenable.         *)
C24_Witness ==
  \E l, k \in DOMAIN latches :
    /\ ThenThrows(l)
    /\ latches[l].first # <<>>
    /\ latches[k].owner = latches[l].owner
    /\ latches[k].kept
    /\ latches[k].first = <<Step("res", Plain(2))>>
    /\ P[latches[l].owner].state = FULFILLED
    /\ P[latches[l].owner].value = Plain(2)

(* C25: resolve(x) with x a foreign object.  When reading x.then raises,   *)
(* the promizen is rejected with what was raised and nothing else is       *)
(* called: no latch, no registration, no new promizen, no handler run.     *)
(* When x.then is read and is no function, the promizen is fulfilled with  *)
(* x itself, and again nothing of x is called.                             *)
C25_ThenMember ==
  [][\A p \in Resolving, in \in SettleInputs :
       LET x == in[2]
       IN  (/\ in[1] = p
            /\ x.t = "object"
            /\ Objects[x.v].getThrows \/ ~Objects[x.v].callable
            /\ Resolve(p, x))
           => /\ IF Objects[x.v].getThrows
                   THEN /\ P'[p].state = REJECTED
                        /\ P'[p].reason = Objects[x.v].err
                        /\ P'[p].value = Null
                   ELSE /\ P'[p].state = FULFILLED
                        /\ P'[p].value = x
                        /\ P'[p].reason = Null
              /\ latches' = latches
              /\ regs' = regs
              /\ Len(P') = Len(P)
              /\ log' = log
              /\ fault' = Null]_vars

(* A promizen fulfilled with an object whose then is no function, the      *)
(* task of the pair that was pending on it queued, and no latch made.      *)
C25_Witness ==
  \E p \in Roots :
    /\ P[p].state = FULFILLED
    /\ P[p].value = Obj(8)
    /\ P[p].pendingHandlers # <<>>
    /\ latches = <<>>

(* The tasks the step queues.                                              *)
NewTasks ==
  {i \in DOMAIN queue' :
     \A j \in DOMAIN queue : queue[j].c.dst # queue'[i].c.dst}

(* The calls of then the step makes.                                       *)
NewRegs == DOMAIN regs' \ DOMAIN regs

(* The tasks of the pairs of a list, for a promizen settled as state.      *)
TasksOf(handlers, state) ==
  IF state = FULFILLED THEN FulfilmentTasks(handlers)
  ELSE RejectionTasks(handlers)

(* C26: __pendingHandlers grows only by a call of then on the promizen,    *)
(* one pair per call, and only while the promizen is pending before and    *)
(* after the step; a call of then on a settled promizen queues a task and  *)
(* leaves the list alone.  The tasks of the pairs of the list are queued   *)
(* only in the step in which the promizen leaves PENDING, all of them, in  *)
(* order, last in the queue; that step adds nothing to the list and runs   *)
(* none of the handlers of the promizen.                                   *)
C26_Step ==
  /\ \A p \in DOMAIN P :
       LET old == P[p].pendingHandlers
           new == P'[p].pendingHandlers
       IN  /\ new # old =>
                /\ P[p].state = PENDING
                /\ P'[p].state = PENDING
                /\ Extends(new, old)
                /\ \A k \in DOMAIN new \ DOMAIN old :
                     /\ new[k].src = p
                     /\ new[k].dst \notin DOMAIN P
                     /\ \E i \in NewRegs :
                          regs'[i].src = p /\ regs'[i].dst = new[k].dst
                /\ Cardinality({i \in NewRegs : regs'[i].src = p})
                     = Len(new) - Len(old)
           /\ (P[p].state = PENDING /\ P'[p].state # PENDING) =>
                /\ new = old
                /\ Len(queue') >= Len(old)
                /\ SubSeq(queue', Len(queue') - Len(old) + 1, Len(queue'))
                     = TasksOf(old, P'[p].state)
                /\ \A i \in DOMAIN log' \ DOMAIN log : log'[i].src # p
           /\ ~(P[p].state = PENDING /\ P'[p].state # PENDING) =>
                \A i \in NewTasks :
                  \A k \in DOMAIN old : queue'[i].c.dst # old[k].dst
  /\ \A i \in NewRegs :
       LET s == regs'[i].src
       IN  (s \in DOMAIN P /\ Settled(s)) =>
             /\ P'[s].pendingHandlers = P[s].pendingHandlers
             /\ \E k \in NewTasks :
                  queue'[k].c.src = s /\ queue'[k].c.dst = regs'[i].dst

C26_ListDiscipline == [][C26_Step]_vars

(* A promizen with one pair given while it was pending and one call of     *)
(* then made after it was settled: the list holds the first pair alone.    *)
C26_Witness ==
  \E i, j \in UserRegs :
    /\ regs[i].src = regs[j].src
    /\ ~AttachedSettled(i)
    /\ AttachedSettled(j)
    /\ Settled(regs[i].src)
    /\ Len(P[regs[i].src].pendingHandlers) = 1

(* C27: a promizen whose fate is unresolved is pending, with no value and  *)
(* no reason; so every fulfilled or rejected promizen has its fate         *)
(* resolved, and the test of resolve and reject, fate resolved or state    *)
(* not pending, is true exactly when the fate is resolved.                 *)
C27_FateBeforeState ==
  \A p \in DOMAIN P :
    /\ P[p].fate = UNRESOLVED =>
         P[p].state = PENDING /\ P[p].value = Null /\ P[p].reason = Null
    /\ (P[p].fate = RESOLVED \/ P[p].state # PENDING)
         <=> P[p].fate = RESOLVED

(* A call ignored on a fulfilled promizen, next to a promizen made by then *)
(* and rejected by its task.                                               *)
C27_Witness ==
  /\ ignored # 0
  /\ P[ignored].state = FULFILLED
  /\ \E d \in Derived : P[d].state = REJECTED /\ P[d].fate = RESOLVED

(* A value __resolveValue passes to __resolve as it is: neither a promizen *)
(* nor an object whose then is read as a function (or cannot be read).     *)
Unwrapped(x) ==
  /\ x.t # "promizen"
  /\ x.t = "object" =>
       ~Objects[x.v].getThrows /\ ~Objects[x.v].callable

(* C28: the value of a fulfilled promizen is never a promizen and never an *)
(* object whose then is a function; a promizen that was resolved with a    *)
(* promizen x and is fulfilled has the value of x, which is fulfilled.     *)
C28_Unwrapped ==
  /\ \A p \in DOMAIN P : P[p].state = FULFILLED => Unwrapped(P[p].value)
  /\ \A i \in Adoptions :
       P[Adopter(i)].state = FULFILLED =>
         /\ P[regs[i].src].state = FULFILLED
         /\ P[Adopter(i)].value = P[regs[i].src].value
         /\ Unwrapped(P[regs[i].src].value)

(* A promizen fulfilled through a promizen that a foreign then handed to   *)
(* its first callback.                                                     *)
C28_Witness ==
  \E i \in Adoptions, l \in DOMAIN latches :
    /\ latches[l].owner = Adopter(i)
    /\ latches[l].first = <<Step("res", Pref(regs[i].src))>>
    /\ P[Adopter(i)].state = FULFILLED

(* The registrations whose task was queued, in the order of the queueing:  *)
(* those whose task has run, then those whose task waits.                  *)
Order ==
  [k \in 1..(Len(log) + Len(queue)) |->
     IF k <= Len(log) THEN log[k].dst ELSE queue[k - Len(log)].c.dst]

Scheduled(d) == \E k \in DOMAIN Order : Order[k] = d

Pos(d) == CHOOSE k \in DOMAIN Order : Order[k] = d

(* C29: a promizen S resolved with another promizen x has its fate         *)
(* resolved and stays pending until the task of the handlers it gave to    *)
(* x.then has run, also when x was settled before the call: the call then  *)
(* queues that task last, settles nothing and runs nothing.  The tasks of  *)
(* the handlers given to x before are queued before that task, and the     *)
(* tasks of the handlers given to S are queued only after it has run.      *)
C29_Inv ==
  \A i \in Adoptions :
    LET s == Adopter(i)
        x == regs[i].src
        a == regs[i].dst
    IN  /\ P[s].fate = RESOLVED
        /\ a \notin Ran => P[s].state = PENDING
        /\ \A j \in DOMAIN regs :
             (regs[j].src = x /\ j < i /\ Scheduled(a)) =>
               /\ Scheduled(regs[j].dst)
               /\ Pos(regs[j].dst) < Pos(a)
        /\ \A k \in DOMAIN regs :
             (regs[k].src = s /\ Scheduled(regs[k].dst)) =>
               /\ a \in Ran
               /\ Pos(a) < Pos(regs[k].dst)

C29_Step ==
  \A p \in Resolving, in \in SettleInputs :
    LET x == in[2]
    IN  (/\ in[1] = p
         /\ x.t = "promizen"
         /\ x.v # p
         /\ Settled(x.v)
         /\ Resolve(p, x))
        => /\ P'[p].state = PENDING
           /\ P'[p].fate = RESOLVED
           /\ P'[p].value = Null /\ P'[p].reason = Null
           /\ Len(queue') = Len(queue) + 1
           /\ SubSeq(queue', 1, Len(queue)) = queue
           /\ LET t == queue'[Len(queue')]
              IN  /\ t.c.src = x.v
                  /\ t.c.onFulfilled = AdoptF(p)
                  /\ t.c.onRejected = AdoptR(p)
                  /\ t.which = IF P[x.v].state = FULFILLED THEN "F" ELSE "R"
           /\ log' = log

C29_AdoptionDeferred == [](C29_Inv) /\ [][C29_Step]_vars

(* S was resolved with x when x was settled and had a handler, and has a   *)
(* handler of its own; the three tasks have run: that of x's handler, that *)
(* of the adoption, that of S's handler.                                   *)
C29_Witness ==
  \E i \in Adoptions, j, k \in UserRegs :
    /\ AttachedSettled(i)
    /\ regs[j].src = regs[i].src /\ j < i
    /\ regs[k].src = Adopter(i)
    /\ Settled(Adopter(i))
    /\ {regs[j].dst, regs[i].dst, regs[k].dst} \subseteq Ran
    /\ queue = <<>>

(* The calls of its callbacks a then method makes while it runs.           *)
RECURSIVE CallsIn(_)
CallsIn(script) ==
  IF script = <<>> \/ Head(script).op = "throw" THEN 0
  ELSE 1 + CallsIn(Tail(script))

====
